---- MODULE Spec2Model ----
(***************************************************************************)
(* A model of the trivia API of backend/flaskr/__init__.py.                *)
(*                                                                         *)
(* State: the rows of the questions table, the next value of its id        *)
(* sequence, and the last request with the response it got.  Every route   *)
(* handler is one action.  The storage collaborator (models.py) is not     *)
(* part of the sources at hand: insert/delete/format follow the            *)
(* specification (insert and delete commit on success and raise on a       *)
(* storage failure; ids come from a sequence and are never reused).        *)
(* A storage fault is an input of the two handlers that write, at either   *)
(* of their storage statements (the insert or delete, and the query that   *)
(* follows it inside the same try block); the read-only handlers are       *)
(* modelled without faults.                                                *)
(***************************************************************************)
EXTENDS Integers, Sequences, FiniteSets, TLC

VARIABLES
    questions,  \* the rows of the questions table (a set of records)
    nextId,     \* the next value of the id sequence
    deleted,    \* history: the ids whose deletion was committed
    fault,      \* the storage fault met while handling the last request
    request,    \* the last request handled
    response    \* the response it got: [status, json]

vars == <<questions, nextId, deleted, fault, request, response>>

QUESTIONS_PER_PAGE == 10

\* Bounds of the model.
MaxId == 12          \* ids handed out under Spec (two pages need more than 10)
MaxDeleted == 2      \* successful deletions
MaxSmallId == 3      \* ids handed out under SpecQuery
MaxPage == 3         \* the largest page number requested

----------------------------------------------------------------------------
(* Values.  An optional value (a JSON null, an absent key, an absent query *)
(* parameter) is a sequence of length 0 or 1.                              *)

None == <<>>
Some(v) == <<v>>
IsNone(o) == Len(o) = 0
Val(o) == o[1]

Min(a, b) == IF a < b THEN a ELSE b
Max(a, b) == IF a > b THEN a ELSE b

\* The rows of the categories table (read-only through the API).
Category == { [id |-> 1, type |-> "Science"], [id |-> 2, type |-> "Art"] }

Ids(rows) == { q.id : q \in rows }

\* A text is a sequence of characters.
Chars == {"A", "a", "B", "b", "c", "%", "_"}
lower(c) == CASE c = "A" -> "a" [] c = "B" -> "b" [] OTHER -> c
Lower(s) == [i \in 1..Len(s) |-> lower(s[i])]

----------------------------------------------------------------------------
(* Python and SQL semantics the handlers rest on.                          *)

\* Python's seq[start:end]: a negative index counts from the end, and both
\* are clamped to the sequence.
Slice(seq, start, end) ==
    LET n == Len(seq)
        s == IF start < 0 THEN Max(n + start, 0) ELSE Min(start, n)
        e == IF end < 0 THEN Max(n + end, 0) ELSE Min(end, n)
    IN  IF s < e THEN SubSeq(seq, s + 1, e) ELSE <<>>

\* query.order_by(Question.id).all(): the rows in ascending id order.
RECURSIVE order_by_id(_)
order_by_id(rows) ==
    IF rows = {} THEN <<>>
    ELSE LET m == CHOOSE q \in rows : \A r \in rows : q.id <= r.id
         IN  <<m>> \o order_by_id(rows \ {m})

\* SQL LIKE on lower-cased operands: % matches any run of characters, _ any
\* single character.
RECURSIVE Like(_, _)
Like(s, p) ==
    IF Len(p) = 0 THEN Len(s) = 0
    ELSE IF p[1] = "%" THEN Like(s, Tail(p)) \/ (Len(s) > 0 /\ Like(Tail(s), p))
    ELSE IF p[1] = "_" THEN Len(s) > 0 /\ Like(Tail(s), Tail(p))
    ELSE Len(s) > 0 /\ s[1] = p[1] /\ Like(Tail(s), Tail(p))

\* column.ilike(pattern): NULL never matches.
ilike(column, pattern) ==
    /\ ~IsNone(column)
    /\ Like(Lower(Val(column)), Lower(pattern))

\* question.format(): the row as the JSON object of the wire contract.
format(q) ==
    [id |-> q.id, question |-> q.question, answer |-> q.answer,
     category |-> q.category, difficulty |-> q.difficulty]

FormatAll(selection) == [i \in 1..Len(selection) |-> format(selection[i])]

\* dict.get(key, None) on a JSON object.
Get(body, key) == IF key \in DOMAIN body THEN Some(body[key]) ELSE None

----------------------------------------------------------------------------
(* The error handlers.                                                     *)

bad_request ==
    [status |-> 400, json |-> [success |-> FALSE, error |-> 400, message |-> "Bad Request"]]
not_found ==
    [status |-> 404, json |-> [success |-> FALSE, error |-> 404, message |-> "Not Found"]]
unprocessable ==
    [status |-> 422, json |-> [success |-> FALSE, error |-> 422, message |-> "Unprocessable"]]

jsonify(obj) == [status |-> 200, json |-> obj]

----------------------------------------------------------------------------
(* paginate_questions                                                      *)

\* request.args.get("page", 1, type = int)
page_of(args) == IF IsNone(args.page) THEN 1 ELSE Val(args.page)

\* Variant: the page parameter is ignored, every request gets page 1.
paginate_questions_default(args, selection) ==
    Slice(FormatAll(selection), 0, QUESTIONS_PER_PAGE)

paginate_questions(args, selection) ==
    LET page == page_of(args)
        start == (page - 1) * QUESTIONS_PER_PAGE
        end == start + QUESTIONS_PER_PAGE
    IN  Slice(FormatAll(selection), start, end)

----------------------------------------------------------------------------
Init ==
    /\ questions = {}
    /\ nextId = 1
    /\ deleted = {}
    /\ fault = "none"
    /\ request = [endpoint |-> "none"]
    /\ response = jsonify([success |-> TRUE])

Reply(req, resp) ==
    /\ request' = req
    /\ response' = resp

\* A read-only handler: nothing stored changes.
ReadOnly ==
    /\ fault' = "none"
    /\ UNCHANGED <<questions, nextId, deleted>>

\* Where a storage statement of a writing handler raises.
Faults == {"none", "statement", "requery"}

\* The storage collaborator: session.add + commit, session.delete + commit.
insert(rows, q) == rows \cup {q}
delete(rows, q) == rows \ {q}

\* db.session.rollback() in an except block: what is pending in the session
\* is discarded, the table is as last committed.
rollback(before, pending) == before

\* request.get_json(): with no JSON body the framework aborts the request with
\* 400 Bad Request (test_create_question_400 documents this).
get_json_fails(req) == ~req.has_body

----------------------------------------------------------------------------
(* GET /categories                                                         *)

get_categories ==
    LET req == [endpoint |-> "get_categories"]
        categories == order_by_id(Category)
    IN  /\ Reply(req, IF Len(categories) = 0 THEN not_found
                      ELSE jsonify([success |-> TRUE, categories |-> categories]))
        /\ ReadOnly

----------------------------------------------------------------------------
(* GET /questions?page=N                                                   *)

\* Variant: an empty page is returned as a success instead of aborting.
get_questions_response_no_abort(args, rows) ==
    LET all == order_by_id(rows)
    IN  jsonify([success |-> TRUE,
                 questions |-> paginate_questions(args, all),
                 total_questions |-> Len(all),
                 categories |-> order_by_id(Category),
                 current_category |-> <<>>])

get_questions_response(args, rows) ==
    LET all == order_by_id(rows)
        current_questions ==
            IF Len(all) > 0 THEN paginate_questions(args, all) ELSE <<>>
    IN  IF Len(current_questions) = 0 THEN not_found
        ELSE jsonify([success |-> TRUE,
                      questions |-> current_questions,
                      total_questions |-> Len(all),
                      categories |-> order_by_id(Category),
                      current_category |-> <<>>])

get_questions(args) ==
    /\ Reply([endpoint |-> "get_questions", args |-> args],
             get_questions_response(args, questions))
    /\ ReadOnly

----------------------------------------------------------------------------
(* DELETE /questions/<id>                                                  *)

remove_question_response(id, args, remain) ==
    LET questions_remain == order_by_id(remain)
    IN  jsonify([success |-> TRUE,
                 questions |-> paginate_questions(args, questions_remain),
                 total_questions |-> Len(questions_remain),
                 deleted |-> id])

\* Question.query.filter(Question.id == id).one_or_none()
one_or_none(rows, id) == { q \in rows : q.id = id }

\* Variant: the deletion is never applied.
remove_question_rows_kept(rows, question) == rows

\* The rows left once the found question was deleted and committed.
remove_question_rows(rows, question) == delete(rows, question)

remove_question(id, args, flt) ==
    LET req == [endpoint |-> "remove_question", id |-> id, args |-> args]
        found == one_or_none(questions, id)
    IN  IF found = {}
        THEN /\ Reply(req, not_found)
             /\ ReadOnly
        ELSE LET question == CHOOSE q \in found : TRUE
                 remain == remove_question_rows(questions, question)
             IN  /\ fault' = flt
                 /\ UNCHANGED nextId
                 /\ IF flt = "statement"
                    THEN \* question.delete() raised: rollback, then 422
                         /\ questions' = rollback(questions, remain)
                         /\ deleted' = deleted
                         /\ Reply(req, unprocessable)
                    ELSE IF flt = "requery"
                    THEN \* the query after the committed delete raised:
                         \* rollback finds nothing pending, then 422
                         /\ questions' = rollback(remain, remain)
                         /\ deleted' = deleted \cup {id}
                         /\ Reply(req, unprocessable)
                    ELSE /\ questions' = remain
                         /\ deleted' = deleted \cup {id}
                         /\ Reply(req, remove_question_response(id, args, remain))

----------------------------------------------------------------------------
(* POST /questions                                                         *)

\* Question(question = body.get("question", None), ...), with the id the
\* sequence hands out on insert.
new_question(body, id) ==
    [id |-> id,
     question |-> Get(body, "question"),
     answer |-> Get(body, "answer"),
     category |-> Get(body, "category"),
     difficulty |-> Get(body, "difficulty")]

\* Variant: the listing is queried before the insert.
create_question_response_stale(args, rows, question) ==
    LET all == order_by_id(rows \ {question})
    IN  jsonify([success |-> TRUE,
                 questions |-> paginate_questions(args, all),
                 total_questions |-> Len(all),
                 created |-> question.id])

create_question_response(args, rows, question) ==
    LET all == order_by_id(rows)
    IN  jsonify([success |-> TRUE,
                 questions |-> paginate_questions(args, all),
                 total_questions |-> Len(all),
                 created |-> question.id])

\* Variant: get_json() called inside the try block, as play_quiz does.
create_question_no_json_in_try == unprocessable

\* The response when request.get_json() aborts: the call is outside the try
\* block, so the framework's 400 reaches the client.
create_question_no_json == bad_request

create_question(req_in, flt) ==
    LET req == [endpoint |-> "create_question"] @@ req_in
    IN  IF get_json_fails(req)
        THEN /\ Reply(req, create_question_no_json)
             /\ ReadOnly
        ELSE LET question == new_question(req.json, nextId)
                 rows == insert(questions, question)
             IN  /\ fault' = flt
                 /\ UNCHANGED deleted
                 /\ IF flt = "statement"
                    THEN \* question.insert() raised: rollback, then 422
                         /\ questions' = rollback(questions, rows)
                         /\ nextId' = nextId
                         /\ Reply(req, unprocessable)
                    ELSE IF flt = "requery"
                    THEN \* the query after the committed insert raised:
                         \* rollback finds nothing pending, then 422
                         /\ questions' = rollback(rows, rows)
                         /\ nextId' = nextId + 1
                         /\ Reply(req, unprocessable)
                    ELSE /\ questions' = rows
                         /\ nextId' = nextId + 1
                         /\ Reply(req, create_question_response(req.args, rows, question))

----------------------------------------------------------------------------
(* POST /questions/search                                                  *)

\* "%{}%".format(search_term)
search_pattern(search_term) == <<"%">> \o search_term \o <<"%">>

\* Question.query.order_by(Question.id).filter(Question.question.ilike(...)).all()
search_rows(rows, search_term) ==
    { q \in rows : ilike(q.question, search_pattern(search_term)) }

\* `if search_term:` is false for None and for the empty string.
truthy(search_term) == ~IsNone(search_term) /\ Len(Val(search_term)) > 0

search_question_response(args, body, rows) ==
    LET search_term == Get(body, "searchTerm")
    IN  IF truthy(search_term)
        THEN LET found == order_by_id(search_rows(rows, Val(search_term)))
             IN  IF Len(found) = 0 THEN not_found
                 ELSE jsonify([success |-> TRUE,
                               questions |-> paginate_questions(args, found),
                               total_questions |-> Len(found),
                               current_category |-> <<>>])
        ELSE bad_request

search_question(req_in) ==
    LET req == [endpoint |-> "search_question"] @@ req_in
    IN  /\ Reply(req, IF get_json_fails(req) THEN bad_request
                      ELSE search_question_response(req.args, req.json, questions))
        /\ ReadOnly

----------------------------------------------------------------------------
(* GET /categories/<cat_id>/questions                                      *)

\* Question.query.filter(Question.category == cat_id)
category_rows(rows, cat_id) == { q \in rows : q.category = Some(cat_id) }

\* Variant: an empty category aborts with 404, as get_questions does.
get_questions_of_category_response_404(cat_id, rows) ==
    LET found == order_by_id(category_rows(rows, cat_id))
    IN  IF Len(found) = 0 THEN not_found
        ELSE jsonify([success |-> TRUE,
                      current_category |-> cat_id,
                      questions |-> FormatAll(found),
                      total_questions |-> Len(found)])

get_questions_of_category_response(cat_id, rows) ==
    LET found == order_by_id(category_rows(rows, cat_id))
        formatted_questions == IF Len(found) > 0 THEN FormatAll(found) ELSE <<>>
    IN  jsonify([success |-> TRUE,
                 current_category |-> cat_id,
                 questions |-> formatted_questions,
                 total_questions |-> Len(found)])

get_questions_of_category(cat_id) ==
    /\ Reply([endpoint |-> "get_questions_of_category", cat_id |-> cat_id],
             get_questions_of_category_response(cat_id, questions))
    /\ ReadOnly

----------------------------------------------------------------------------
(* POST /quizzes                                                           *)

\* Variant: the category filter is dropped.
quiz_rows_any_category(rows, previous_questions, quiz_category) ==
    { q \in rows : q.id \notin previous_questions }

\* The rows the two queries of play_quiz select; previous_questions is a
\* list of ids here (None makes notin_ raise, see play_quiz).
quiz_rows(rows, previous_questions, quiz_category) ==
    IF IsNone(quiz_category)
    THEN { q \in rows : q.id \notin previous_questions }
    ELSE { q \in rows : /\ q.category = Some(Val(quiz_category).id)
                        /\ q.id \notin previous_questions }

\* Whether the try block raises before a question is chosen: no JSON body,
\* notin_(None), or random.choice of an empty list.
play_quiz_raises(req) ==
    \/ get_json_fails(req)
    \/ IsNone(Get(req.json, "previous_questions"))
    \/ quiz_rows(questions, Val(Get(req.json, "previous_questions")),
                 Get(req.json, "quiz_category")) = {}

play_quiz(req_in) ==
    LET req == [endpoint |-> "play_quiz"] @@ req_in
    IN  /\ IF play_quiz_raises(req)
           THEN Reply(req, unprocessable)
           ELSE \E question \in quiz_rows(questions,
                                          Val(Get(req.json, "previous_questions")),
                                          Get(req.json, "quiz_category")) :
                    \* random.choice(questions)
                    Reply(req, jsonify([success |-> TRUE,
                                        question |-> format(question)]))
        /\ ReadOnly

----------------------------------------------------------------------------
(* The requests of the model.                                              *)

NoArgs == [page |-> None]
PageArgs == {NoArgs} \cup { [page |-> Some(p)] : p \in (0 - MaxPage)..MaxPage }
FewArgs == {NoArgs, [page |-> Some(2)]}

CatIds == { c.id : c \in Category } \cup {3}

Text1 == <<"A", "b">>
Text2 == <<"c">>

\* The one question posted under Spec.
Body1 == [question |-> Text1, answer |-> Text2, category |-> 1, difficulty |-> 1]

\* The questions posted under SpecQuery: two texts, two categories, and the
\* empty JSON object (every column NULL).
QueryBodies ==
    { Body1,
      [question |-> Text2, answer |-> Text1, category |-> 1, difficulty |-> 2],
      [question |-> Text1, answer |-> Text2, category |-> 2, difficulty |-> 3],
      << >> }

NoBody(args) == [args |-> args, has_body |-> FALSE]
Json(args, body) == [args |-> args, has_body |-> TRUE, json |-> body]

SearchTerms ==
    { <<>>, <<"a">>, <<"a", "B">>, <<"B">>, <<"c">>, <<"b", "a">>,
      <<"%">>, <<"_">>, <<"a", "_">> }

SearchBodies == { << >> } \cup { [searchTerm |-> t] : t \in SearchTerms }

QuizCategories == { [id |-> c, type |-> "click"] : c \in CatIds }

QuizBodies ==
    { << >> }
    \cup { [previous_questions |-> prev] : prev \in SUBSET (1..MaxSmallId) }
    \cup { [previous_questions |-> prev, quiz_category |-> c] :
              prev \in SUBSET (1..MaxSmallId), c \in QuizCategories }
    \cup { [quiz_category |-> c] : c \in QuizCategories }

----------------------------------------------------------------------------
(* Spec: one question body, up to MaxId questions, every page.             *)

Next ==
    \/ get_categories
    \/ \E args \in PageArgs : get_questions(args)
    \/ /\ Cardinality(deleted) < MaxDeleted
       /\ \E id \in 1..nextId, args \in FewArgs, flt \in Faults :
             remove_question(id, args, flt)
    \/ /\ nextId <= MaxId
       /\ \E args \in FewArgs, flt \in Faults :
             \/ create_question(Json(args, Body1), flt)
             \/ create_question(NoBody(args), flt)
    \/ \E cat_id \in CatIds : get_questions_of_category(cat_id)

Spec == Init /\ [][Next]_vars

(* SpecQuery: a small table of varied questions, searched and quizzed.     *)

NextQuery ==
    \/ get_questions(NoArgs)
    \/ /\ Cardinality(deleted) < MaxDeleted
       /\ \E id \in 1..nextId, flt \in Faults : remove_question(id, NoArgs, flt)
    \/ /\ nextId <= MaxSmallId
       /\ \E body \in QueryBodies, flt \in Faults :
             create_question(Json(NoArgs, body), flt)
    \/ \E body \in SearchBodies, args \in FewArgs : search_question(Json(args, body))
    \/ search_question(NoBody(NoArgs))
    \/ \E cat_id \in CatIds : get_questions_of_category(cat_id)
    \/ \E body \in QuizBodies : play_quiz(Json(NoArgs, body))
    \/ play_quiz(NoBody(NoArgs))

SpecQuery == Init /\ [][NextQuery]_vars

----------------------------------------------------------------------------
(* The claims.  Their vocabulary is defined apart from the handlers'.      *)

\* The 0-based position of q among rows in ascending id order.
Rank(q, rows) == Cardinality({ r \in rows : r.id < q.id })

\* rows in ascending id order, as JSON objects.
Ascending(rows) ==
    [k \in 1..Cardinality(rows) |-> format(CHOOSE q \in rows : Rank(q, rows) = k - 1)]

\* The questions at positions i with (page-1)*10 <= i < page*10, in order.
Window(rows, page) ==
    LET lo == (page - 1) * QUESTIONS_PER_PAGE
        hi == page * QUESTIONS_PER_PAGE
        inside == { q \in rows : lo <= Rank(q, rows) /\ Rank(q, rows) < hi }
    IN  [k \in 1..Cardinality(inside) |->
            format(CHOOSE q \in inside : Rank(q, rows) = lo + k - 1)]

Ceil(total) == (total + QUESTIONS_PER_PAGE - 1) \div QUESTIONS_PER_PAGE

RequestedPage == IF request.args.page = <<>> THEN 1 ELSE request.args.page[1]

ListedIds(resp) == { resp.json.questions[k].id : k \in 1..Len(resp.json.questions) }

Ok == response.status = 200 /\ response.json.success = TRUE

IsError(resp, code, message) ==
    resp = [status |-> code,
            json |-> [success |-> FALSE, error |-> code, message |-> message]]

C1_Step ==
    (request'.endpoint = "remove_question" /\ response'.status = 200) =>
        /\ request'.id \in Ids(questions)
        /\ response'.json.success = TRUE
        /\ response'.json.total_questions = Cardinality(questions) - 1
        /\ questions' = { q \in questions : q.id # request'.id }
C1_Listed ==
    (request.endpoint = "get_questions" /\ Ok) => ListedIds(response) \cap deleted = {}

\* C1: a successful DELETE of an existing question q reports the count before
\* the request minus 1, removes q and nothing else, and no later listing of
\* any page contains a deleted id.
C1_DeleteThenList == [][C1_Step]_vars /\ []C1_Listed

C1_Witness ==
    /\ request.endpoint = "get_questions"
    /\ Ok
    /\ deleted # {}

C2_Step ==
    (request'.endpoint = "create_question" /\ response'.status = 200) =>
        /\ response'.json.success = TRUE
        /\ response'.json.total_questions = Cardinality(questions) + 1
        /\ response'.json.created \notin Ids(questions)
        /\ Cardinality({ p \in 1..Ceil(response'.json.total_questions) :
                LET listing == get_questions_response([page |-> Some(p)], questions')
                IN  /\ listing.status = 200
                    /\ response'.json.created \in ListedIds(listing) }) = 1

\* C2: a successful POST /questions reports the count before the request
\* plus 1, returns an id no stored question had, and that id is on exactly
\* one of the pages 1..ceil(total/10) of a listing that follows.
C2_CreateThenList == [][C2_Step]_vars

C2_Witness ==
    /\ request.endpoint = "create_question"
    /\ Ok
    /\ response.json.total_questions > QUESTIONS_PER_PAGE

\* C3: GET /questions?page=N with N > ceil(total/10) (every N >= 1 when the
\* table is empty) fails with the 404 envelope and carries no question data.
C3_PageBeyondRange ==
    (request.endpoint = "get_questions" /\ RequestedPage > Ceil(Cardinality(questions))) =>
        /\ IsError(response, 404, "Not Found")
        /\ "questions" \notin DOMAIN response.json

C3_Witness ==
    /\ request.endpoint = "get_questions"
    /\ questions # {}
    /\ RequestedPage > Ceil(Cardinality(questions))

C4_Step ==
    (request'.endpoint = "create_question" /\ ~request'.has_body) =>
        /\ IsError(response', 400, "Bad Request")
        /\ questions' = questions
        /\ nextId' = nextId

\* C4: POST /questions without a body fails with the 400 Bad Request
\* envelope and inserts nothing.
C4_EmptyBody == [][C4_Step]_vars

C4_Witness ==
    /\ request.endpoint = "create_question"
    /\ ~request.has_body
    /\ response.status = 400
    /\ questions # {}

\* The candidate set of a quiz request: the stored questions whose id is not
\* among the previous ones and, with a category given, of that category.
Candidates ==
    { q \in questions :
        /\ q.id \notin request.json.previous_questions
        /\ "quiz_category" \in DOMAIN request.json =>
               q.category = <<request.json.quiz_category.id>> }

HasPrevious == request.has_body /\ "previous_questions" \in DOMAIN request.json

C5_State ==
    request.endpoint = "play_quiz" =>
        IF HasPrevious
        THEN /\ Ok <=> Candidates # {}
             /\ Ok => response.json.question \in { format(q) : q \in Candidates }
             /\ Candidates = {} => IsError(response, 422, "Unprocessable")
        ELSE IsError(response, 422, "Unprocessable")
C5_Step ==
    request'.endpoint = "play_quiz" => questions' = questions /\ nextId' = nextId

\* C5: POST /quizzes succeeds exactly when the candidate set is not empty,
\* and then returns one of the candidates; with no candidate or without
\* previous_questions it fails with 422; the table is never changed.
C5_NextQuestion == []C5_State /\ [][C5_Step]_vars

C5_Witness ==
    /\ request.endpoint = "play_quiz"
    /\ Ok
    /\ "quiz_category" \in DOMAIN request.json
    /\ request.json.previous_questions # {}
    /\ Cardinality(Candidates) > 1

\* text contains term, case-insensitively.
Contains(text, term) ==
    \E i \in 0..(Len(text) - Len(term)) :
        \A j \in 1..Len(term) : lower(text[i + j]) = lower(term[j])

Matching(term) ==
    { q \in questions : q.question # <<>> /\ Contains(q.question[1], term) }

\* C6: a search with an empty or absent term is a 400 whatever is stored;
\* otherwise it is a 404 when no stored text contains the term
\* case-insensitively; otherwise it succeeds, every returned question
\* contains the term and total_questions is the number of matching questions.
C6_SearchOutcome ==
    (request.endpoint = "search_question" /\ request.has_body) =>
        IF "searchTerm" \notin DOMAIN request.json \/ request.json.searchTerm = <<>>
        THEN IsError(response, 400, "Bad Request")
        ELSE IF Matching(request.json.searchTerm) = {}
        THEN IsError(response, 404, "Not Found")
        ELSE /\ Ok
             /\ ListedIds(response) \subseteq Ids(Matching(request.json.searchTerm))
             /\ response.json.total_questions =
                    Cardinality(Matching(request.json.searchTerm))

\* C7 as stated: a successful DELETE returns the first page of the remaining
\* questions whatever page parameter the request carries.
C7_DefaultPage ==
    (request.endpoint = "remove_question" /\ Ok) =>
        /\ response.json.questions = Window(questions, 1)
        /\ response.json.total_questions = Cardinality(questions)
        /\ response.json.deleted = request.id

\* C7 as amended: a successful DELETE returns the page of the remaining
\* questions that the request's own page parameter (>= 1) selects, page 1
\* when it is absent, with the number remaining and the deleted id.
C7_RequestedPage ==
    (request.endpoint = "remove_question" /\ Ok /\ RequestedPage >= 1) =>
        /\ response.json.questions = Window(questions, RequestedPage)
        /\ response.json.total_questions = Cardinality(questions)
        /\ response.json.deleted = request.id
        /\ request.id \notin Ids(questions)

C7_Witness ==
    /\ request.endpoint = "remove_question"
    /\ Ok
    /\ RequestedPage = 2
    /\ Len(response.json.questions) > 0

\* C8: the listing of a category always succeeds with all its questions in
\* ascending id order, unpaginated, and their number (an empty sequence when
\* there is none); the global listing is a 404 when the table is empty.
C8_Emptiness ==
    /\ request.endpoint = "get_questions_of_category" =>
          LET of_category == { q \in questions : q.category = <<request.cat_id>> }
          IN  /\ Ok
              /\ response.json.questions = Ascending(of_category)
              /\ response.json.total_questions = Cardinality(of_category)
    /\ (request.endpoint = "get_questions" /\ questions = {}) =>
          IsError(response, 404, "Not Found")

C8_Witness ==
    /\ request.endpoint = "get_questions_of_category"
    /\ response.json.total_questions = 0
    /\ questions # {}

\* C9: for every integer page, GET /questions returns exactly the questions
\* at the positions (page-1)*10 <= i < page*10 of the ascending listing, and
\* is a 404 exactly when there is no such question.
C9_PageWindow ==
    request.endpoint = "get_questions" =>
        /\ Ok => response.json.questions = Window(questions, RequestedPage)
        /\ IsError(response, 404, "Not Found") <=> Window(questions, RequestedPage) = <<>>
        /\ Ok \/ IsError(response, 404, "Not Found")

C10_Step ==
    request'.endpoint \in {"create_question", "remove_question"} =>
        /\ response'.json.success = FALSE => questions' = questions
        /\ questions' # questions => response'.status = 200 /\ response'.json.success = TRUE

\* C10: a create or delete request that ends in an error response leaves the
\* stored questions as they were; the table changes only with a success.
C10_AllOrNothing == [][C10_Step]_vars

====
